---- MODULE Spec2Model ----
(***************************************************************************)
(* Model of the filename-keyword classifier of src/server/modelService.ts  *)
(* (class ServerModelService and its exported instance modelService), and  *)
(* of the model loader of src/client/src/services/modelService.ts (class   *)
(* AloeModelService: loadModel, predict, warmUp, dispose).                 *)
(*                                                                         *)
(* Text. A JavaScript string is a sequence of characters; a character is a *)
(* one-character TLA+ string ("a", "_", "%"), and the few characters that  *)
(* are not printable ASCII carry a name ("NBSP", "KELVIN", "NONASCII").    *)
(*                                                                         *)
(* Numbers. Scores and confidences are IEEE doubles in the source.  They   *)
(* are kept here as integers counting 1/3000ths (see Fixed), the unit in   *)
(* which every value the code computes from k * 1.0 + m * 0.4 and from a   *)
(* score given in tenths is exact before the final rounding.               *)
(***************************************************************************)
EXTENDS Integers, Sequences, FiniteSets, TLC

VARIABLES
  diseaseClasses,   \* this.diseaseClasses
  diseaseInfo,      \* this.diseaseInfo
  keywords,         \* this.keywords
  priority,         \* this.priority
  pc,               \* per caller: "idle", "pending" (promise not yet settled), "done"
  op,               \* per caller: the public method invoked
  arg,              \* per caller: the imageName passed
  norm,             \* per caller: the record destructured from normalizeName
  debug,            \* per caller: the record returned by debugAnalyze
  ret,              \* per caller: the ModelPrediction the promise resolves to
  mapperPc,         \* "idle", or "returned" once scoreToConfidence ran on its own
  scoreArg,         \* the score last handed to scoreToConfidence on its own
  confRet,          \* what scoreToConfidence returned for scoreArg
  model,            \* AloeModelService.model: "null", "layers" or "mock"
  isLoaded,         \* AloeModelService.isLoaded
  isLoading,        \* AloeModelService.isLoading
  clientPc,         \* per caller: where its call into AloeModelService stands
  clientOp,         \* per caller: the method of AloeModelService it invoked
  loadOutcome       \* per caller: how its loadModel call ended

tables == <<diseaseClasses, diseaseInfo, keywords, priority>>
frames == <<pc, op, arg, norm, debug, ret>>
mapper == <<mapperPc, scoreArg, confRet>>
service == <<model, isLoaded, isLoading>>
loader == <<model, isLoaded, isLoading, clientPc, clientOp, loadOutcome>>
vars == <<diseaseClasses, diseaseInfo, keywords, priority,
          pc, op, arg, norm, debug, ret, mapperPc, scoreArg, confRet,
          model, isLoaded, isLoading, clientPc, clientOp, loadOutcome>>

----------------------------------------------------------------------------
(* Bounds of the model. *)

\* callers that share the modelService instance
NumCallers == 2
\* pieces concatenated into a file name of the classification inputs
MaxPieces == 2
\* pieces concatenated into a raw name of the path inputs
MaxPathPieces == 3
\* scores handed to scoreToConfidence range over -ScoreSpan..ScoreSpan tenths
ScoreSpan == 60

Callers == 1..NumCallers

----------------------------------------------------------------------------
(* Characters. *)

Lower == {"a","b","c","d","e","f","g","h","i","j","k","l","m",
          "n","o","p","q","r","s","t","u","v","w","x","y","z"}
Digit == {"0","1","2","3","4","5","6","7","8","9"}

\* what the regular-expression class \s and String.prototype.trim treat as
\* white space: tab, line feed, vertical tab, form feed, carriage return,
\* space, no-break space and the other Unicode spaces
WhiteSpace == {" ", "\t", "\n", "VT", "\f", "\r", "NBSP", "USPACE"}

UpperSeq == <<"A","B","C","D","E","F","G","H","I","J","K","L","M",
              "N","O","P","Q","R","S","T","U","V","W","X","Y","Z">>
LowerSeq == <<"a","b","c","d","e","f","g","h","i","j","k","l","m",
              "n","o","p","q","r","s","t","u","v","w","x","y","z">>
Upper == {UpperSeq[i] : i \in 1..26}

\* printable ASCII, code 32 at index 1
Ascii == <<" ","!","\"","#","$","%","&","'","(",")","*","+",",","-",".","/",
           "0","1","2","3","4","5","6","7","8","9",":",";","<","=",">","?",
           "@","A","B","C","D","E","F","G","H","I","J","K","L","M","N","O",
           "P","Q","R","S","T","U","V","W","X","Y","Z","[","\\","]","^","_",
           "BACKTICK","a","b","c","d","e","f","g","h","i","j","k","l","m","n","o",
           "p","q","r","s","t","u","v","w","x","y","z","{","|","}","~">>

\* the character of a Unicode code point
CharOf(cp) ==
  IF cp >= 32 /\ cp <= 126 THEN Ascii[cp - 31]
  ELSE IF cp = 9 THEN "\t"
  ELSE IF cp = 10 THEN "\n"
  ELSE IF cp = 11 THEN "VT"
  ELSE IF cp = 12 THEN "\f"
  ELSE IF cp = 13 THEN "\r"
  ELSE IF cp < 128 THEN "CTL"
  ELSE IF cp = 160 THEN "NBSP"
  ELSE IF cp = 304 THEN "IDOT"
  ELSE IF cp = 8490 THEN "KELVIN"
  ELSE IF cp \in {5760, 8232, 8233, 8239, 8287, 12288, 65279}
          \/ (cp >= 8192 /\ cp <= 8202) THEN "USPACE"
  ELSE "NONASCII"

HexDigits == <<"0","1","2","3","4","5","6","7","8","9",
               "a","b","c","d","e","f","A","B","C","D","E","F">>
IsHex(c) == \E i \in 1..22 : HexDigits[i] = c
HexVal(c) ==
  LET i == CHOOSE j \in 1..22 : HexDigits[j] = c
  IN IF i <= 16 THEN i - 1 ELSE i - 7

----------------------------------------------------------------------------
(* String primitives of the JavaScript runtime. *)

\* the empty string
Empty == <<>>

\* a value that is no string at all (undefined / null)
Absent == <<"undefined">>

\* String.prototype.toLowerCase, one character at a time
LowerChars(c) ==
  IF c \in Upper THEN <<LowerSeq[CHOOSE i \in 1..26 : UpperSeq[i] = c]>>
  ELSE IF c = "KELVIN" THEN <<"k">>
  ELSE IF c = "IDOT" THEN <<"i", "NONASCII">>
  ELSE <<c>>

RECURSIVE toLowerCase(_)
toLowerCase(s) ==
  IF s = <<>> THEN <<>> ELSE LowerChars(Head(s)) \o toLowerCase(Tail(s))

\* s.split(ch)[0]: the text before the first ch, all of s when there is none
SplitFirst(s, ch) ==
  LET at == {i \in 1..Len(s) : s[i] = ch}
  IN IF at = {} THEN s
     ELSE SubSeq(s, 1, (CHOOSE i \in at : \A j \in at : i <= j) - 1)

\* path.basename (POSIX): trailing slashes dropped, then the text after the
\* last slash
RECURSIVE StripTrailingSlashes(_)
StripTrailingSlashes(p) ==
  IF p # <<>> /\ p[Len(p)] = "/"
  THEN StripTrailingSlashes(SubSeq(p, 1, Len(p) - 1))
  ELSE p

basename(p) ==
  LET q == StripTrailingSlashes(p)
      at == {i \in 1..Len(q) : q[i] = "/"}
  IN IF at = {} THEN q
     ELSE SubSeq(q, (CHOOSE i \in at : \A j \in at : i >= j) + 1, Len(q))

\* haystack.includes(needle)
includes(haystack, needle) ==
  \E i \in 0..(Len(haystack) - Len(needle)) :
     SubSeq(haystack, i + 1, i + Len(needle)) = needle

\* String.prototype.trim
RECURSIVE trimStart(_)
trimStart(s) ==
  IF s # <<>> /\ Head(s) \in WhiteSpace THEN trimStart(Tail(s)) ELSE s

RECURSIVE trimEnd(_)
trimEnd(s) ==
  IF s # <<>> /\ s[Len(s)] \in WhiteSpace
  THEN trimEnd(SubSeq(s, 1, Len(s) - 1))
  ELSE s

\* mutant: the call of trim is left out
trim_missing(s) == s

trim(s) == trimEnd(trimStart(s))

\* s.replace(/[_\-\.]+/g, ' '): every run of '_', '-', '.' becomes one space
Separators == {"_", "-", "."}

\* mutant: the separators are deleted instead of replaced by a space
NotSeparator(c) == c \notin Separators
ReplaceSeparatorRuns_deleted(s, inRun) == SelectSeq(s, NotSeparator)

RECURSIVE ReplaceSeparatorRuns(_, _)
ReplaceSeparatorRuns(s, inRun) ==
  IF s = <<>> THEN <<>>
  ELSE IF Head(s) \in Separators
       THEN (IF inRun THEN <<>> ELSE <<" ">>) \o ReplaceSeparatorRuns(Tail(s), TRUE)
       ELSE <<Head(s)>> \o ReplaceSeparatorRuns(Tail(s), FALSE)

\* s.replace(/[^a-z0-9\s]+/g, ''): only lower-case letters, digits and white
\* space are kept
KeepAlnumSpace(c) == c \in Lower \/ c \in Digit \/ c \in WhiteSpace
StripNonAlnumSpace(s) == SelectSeq(s, KeepAlnumSpace)

\* s.replace(/[^a-z0-9]+/g, ''): only lower-case letters and digits are kept
KeepAlnum(c) == c \in Lower \/ c \in Digit
StripNonAlnum(s) == SelectSeq(s, KeepAlnum)

\* s.replace(/\s+/g, '')
NotWhiteSpace(c) == c \notin WhiteSpace
RemoveWhiteSpace(s) == SelectSeq(s, NotWhiteSpace)

\* s.split(/\s+/).filter(Boolean): the maximal runs of non-space characters
RECURSIVE SplitOnWhiteSpace(_, _)
SplitOnWhiteSpace(s, cur) ==
  IF s = <<>> THEN (IF cur = <<>> THEN <<>> ELSE <<cur>>)
  ELSE IF Head(s) \in WhiteSpace
       THEN (IF cur = <<>> THEN <<>> ELSE <<cur>>) \o SplitOnWhiteSpace(Tail(s), <<>>)
       ELSE SplitOnWhiteSpace(Tail(s), Append(cur, Head(s)))

\* array.includes(x)
Contains(array, x) == \E i \in 1..Len(array) : array[i] = x

----------------------------------------------------------------------------
(* decodeURIComponent: %XX escapes are bytes of UTF-8; an escape that is   *)
(* not two hex digits, or bytes that are not well-formed UTF-8, throw      *)
(* URIError.  The result is [ok |-> FALSE] for a throw.                    *)

HasByte(s, i) ==
  i + 2 <= Len(s) /\ s[i] = "%" /\ IsHex(s[i + 1]) /\ IsHex(s[i + 2])
ByteAt(s, i) == 16 * HexVal(s[i + 1]) + HexVal(s[i + 2])

\* continuation bytes a lead byte announces; 0 for a byte that cannot lead
Trailing(b) ==
  IF b >= 194 /\ b <= 223 THEN 1
  ELSE IF b >= 224 /\ b <= 239 THEN 2
  ELSE IF b >= 240 /\ b <= 244 THEN 3
  ELSE 0

IsContinuation(s, i) ==
  HasByte(s, i) /\ ByteAt(s, i) >= 128 /\ ByteAt(s, i) <= 191

\* the code point of the sequence of 1 + n bytes that starts at i
CodePoint(s, i, n) ==
  LET b == ByteAt(s, i)
      c(k) == ByteAt(s, i + 3 * k) - 128
  IN IF n = 1 THEN (b - 192) * 64 + c(1)
     ELSE IF n = 2 THEN (b - 224) * 4096 + c(1) * 64 + c(2)
     ELSE (b - 240) * 262144 + c(1) * 4096 + c(2) * 64 + c(3)

\* neither an overlong form, nor a surrogate, nor beyond U+10FFFF
WellFormed(cp, n) ==
  IF n = 1 THEN cp >= 128
  ELSE IF n = 2 THEN cp >= 2048 /\ ~(cp >= 55296 /\ cp <= 57343)
  ELSE cp >= 65536 /\ cp <= 1114111

RECURSIVE DecodeFrom(_, _)
DecodeFrom(s, i) ==
  IF i > Len(s) THEN [ok |-> TRUE, value |-> <<>>]
  ELSE IF s[i] # "%"
  THEN LET rest == DecodeFrom(s, i + 1)
       IN IF rest.ok THEN [ok |-> TRUE, value |-> <<s[i]>> \o rest.value]
          ELSE rest
  ELSE IF ~HasByte(s, i) THEN [ok |-> FALSE, value |-> <<>>]
  ELSE LET b == ByteAt(s, i)
           n == Trailing(b)
       IN IF b < 128
          THEN LET rest == DecodeFrom(s, i + 3)
               IN IF rest.ok
                  THEN [ok |-> TRUE, value |-> <<CharOf(b)>> \o rest.value]
                  ELSE rest
          ELSE IF n = 0 \/ \E k \in 1..n : ~IsContinuation(s, i + 3 * k)
          THEN [ok |-> FALSE, value |-> <<>>]
          ELSE IF ~WellFormed(CodePoint(s, i, n), n)
          THEN [ok |-> FALSE, value |-> <<>>]
          ELSE LET rest == DecodeFrom(s, i + 3 * (n + 1))
               IN IF rest.ok
                  THEN [ok |-> TRUE,
                        value |-> <<CharOf(CodePoint(s, i, n))>> \o rest.value]
                  ELSE rest

decodeURIComponent(s) == DecodeFrom(s, 1)

----------------------------------------------------------------------------
(* ServerModelService.normalizeName *)

\* mutant: path.basename is applied before the query and fragment are cut
normalizeName_segmentFirst(raw) ==
  IF raw = Absent \/ raw = Empty
  THEN [base |-> <<>>, normalized |-> <<>>, compact |-> <<>>, tokens |-> <<>>]
  ELSE LET segment == SplitFirst(SplitFirst(basename(raw), "?"), "#")
           decoded == decodeURIComponent(segment)
           base == IF decoded.ok THEN decoded.value ELSE segment
           normalized ==
             trim(StripNonAlnumSpace(ReplaceSeparatorRuns(toLowerCase(base), FALSE)))
       IN [base |-> base,
           normalized |-> normalized,
           compact |-> RemoveWhiteSpace(normalized),
           tokens |-> SplitOnWhiteSpace(normalized, <<>>)]

\* mutant: the catch of the URIError gives up the name
normalizeName_decodeOrEmpty(raw) ==
  IF raw = Absent \/ raw = Empty
  THEN [base |-> <<>>, normalized |-> <<>>, compact |-> <<>>, tokens |-> <<>>]
  ELSE LET segment == basename(SplitFirst(SplitFirst(raw, "?"), "#"))
           decoded == decodeURIComponent(segment)
           base == IF decoded.ok THEN decoded.value ELSE <<>>
           normalized ==
             trim(StripNonAlnumSpace(ReplaceSeparatorRuns(toLowerCase(base), FALSE)))
       IN [base |-> base,
           normalized |-> normalized,
           compact |-> RemoveWhiteSpace(normalized),
           tokens |-> SplitOnWhiteSpace(normalized, <<>>)]

normalizeName(raw) ==
  IF raw = Absent \/ raw = Empty
  THEN [base |-> <<>>, normalized |-> <<>>, compact |-> <<>>, tokens |-> <<>>]
  ELSE LET segment == basename(SplitFirst(SplitFirst(raw, "?"), "#"))
           decoded == decodeURIComponent(segment)
           base == IF decoded.ok THEN decoded.value ELSE segment
           normalized ==
             trim(StripNonAlnumSpace(ReplaceSeparatorRuns(toLowerCase(base), FALSE)))
       IN [base |-> base,
           normalized |-> normalized,
           compact |-> RemoveWhiteSpace(normalized),
           tokens |-> SplitOnWhiteSpace(normalized, <<>>)]

----------------------------------------------------------------------------
(* The configuration tables of ServerModelService, as the constructor      *)
(* leaves them.                                                            *)

InitDiseaseClasses ==
  <<"Aloe Rust", "Healthy", "Anthracnose", "Leaf Spot", "Sunburn">>

InitDiseaseInfo ==
  ("Healthy" :>
     [description |-> "Your Aloe Vera plant appears healthy with no visible signs of disease.",
      treatment |-> "Continue your current care routine. Maintain proper watering and lighting.",
      severity |-> "null"])
  @@
  ("Leaf Spot" :>
     [description |-> "Fungal infection causing circular brown or black spots on leaves.",
      treatment |-> "Remove affected leaves, improve air circulation, apply fungicide, reduce watering frequency.",
      severity |-> "moderate"])
  @@
  ("Aloe Rust" :>
     [description |-> "Fungal disease causing orange-brown pustules on leaf surfaces.",
      treatment |-> "Remove infected parts, ensure good ventilation, apply copper-based fungicide.",
      severity |-> "high"])
  @@
  ("Anthracnose" :>
     [description |-> "Fungal disease causing dark, sunken lesions on leaves and stems.",
      treatment |-> "Prune affected areas, improve drainage, apply systemic fungicide treatment.",
      severity |-> "high"])
  @@
  ("Sunburn" :>
     [description |-> "Damage from excessive direct sunlight causing brown or white patches.",
      treatment |-> "Move to partial shade, gradually reintroduce to sunlight, remove damaged parts.",
      severity |-> "low"])

InitKeywords ==
  ("Aloe Rust" :>
     [strong |-> << <<"r","u","s","t">>,
                    <<"a","l","o","e","r","u","s","t">>,
                    <<"p","u","s","t","u","l","e">>,
                    <<"p","u","s","t","u","l","e","s">>,
                    <<"u","r","e","d","i","n","i","a">>,
                    <<"r","u","s","t","y">> >>,
      weak   |-> << <<"o","r","a","n","g","e">>,
                    <<"b","r","o","w","n","p","u","s","t","u","l","e">>,
                    <<"o","r","a","n","g","e","-","p","u","s","t","u","l","e">> >>])
  @@
  ("Anthracnose" :>
     [strong |-> << <<"a","n","t","h","r","a","c","n","o","s","e">>,
                    <<"c","o","l","l","e","t","o","t","r","i","c","h","u","m">>,
                    <<"s","u","n","k","e","n","-","l","e","s","i","o","n">>,
                    <<"s","u","n","k","e","n","l","e","s","i","o","n">>,
                    <<"s","u","n","k","e","n">>,
                    <<"l","e","s","i","o","n">> >>,
      weak   |-> << <<"d","a","r","k","l","e","s","i","o","n">>,
                    <<"b","l","a","c","k","l","e","s","i","o","n">>,
                    <<"b","l","a","c","k","s","p","o","t">> >>])
  @@
  ("Leaf Spot" :>
     [strong |-> << <<"l","e","a","f","s","p","o","t">>,
                    <<"l","e","a","f","-","s","p","o","t">>,
                    <<"l","e","a","f","_","s","p","o","t">>,
                    <<"l","e","a","f"," ","s","p","o","t">>,
                    <<"s","p","o","t">>,
                    <<"s","p","o","t","s">> >>,
      weak   |-> << <<"s","p","e","c","k","l","e">>,
                    <<"s","p","e","c","k","l","e","s">>,
                    <<"f","r","e","c","k","l","e">>,
                    <<"f","r","e","c","k","l","e","s">> >>])
  @@
  ("Sunburn" :>
     [strong |-> << <<"s","u","n","b","u","r","n">>,
                    <<"s","u","n","s","c","a","l","d">>,
                    <<"s","u","n","-","s","c","a","l","d">>,
                    <<"s","c","o","r","c","h">>,
                    <<"s","c","o","r","c","h","e","d">>,
                    <<"s","u","n"," ","s","c","a","l","d">> >>,
      weak   |-> << <<"h","e","a","t","d","a","m","a","g","e">>,
                    <<"h","e","a","t","-","d","a","m","a","g","e">>,
                    <<"s","c","a","l","d">> >>])
  @@
  ("Healthy" :>
     [strong |-> << <<"h","e","a","l","t","h","y">>,
                    <<"n","o","r","m","a","l">>,
                    <<"c","o","n","t","r","o","l">> >>,
      weak   |-> << <<"g","r","e","e","n">>,
                    <<"o","k">>,
                    <<"g","o","o","d">> >>])

InitPriority ==
  <<"Aloe Rust", "Anthracnose", "Leaf Spot", "Sunburn", "Healthy">>

\* the instance the methods run on
this ==
  [diseaseClasses |-> diseaseClasses, diseaseInfo |-> diseaseInfo,
   keywords |-> keywords, priority |-> priority]

\* the instance as constructed
Constructed ==
  [diseaseClasses |-> InitDiseaseClasses, diseaseInfo |-> InitDiseaseInfo,
   keywords |-> InitKeywords, priority |-> InitPriority]

----------------------------------------------------------------------------
(* Numbers: a real x is the integer 3000 * x. *)

Fixed(num, den) == (num * 3000) \div den
FMul(x, y) == (x * y) \div 3000
FDiv(x, y) == (x * 3000) \div y
FMin(x, y) == IF x <= y THEN x ELSE y

\* Math.round: the nearest integer, a half rounded up
MathRound(x) == ((x + 1500) \div 3000) * 3000

STRONG_WEIGHT == Fixed(10, 10)
WEAK_WEIGHT == Fixed(4, 10)
MAX == Fixed(30, 10)

----------------------------------------------------------------------------
(* ServerModelService.debugAnalyze *)

\* mutant: only the exact-token rule is applied
check_tokenOnly(name, kw) ==
  LET kwNorm == StripNonAlnum(toLowerCase(kw))
  IN IF kwNorm = <<>> THEN FALSE
     ELSE Contains(name.tokens, trim(StripNonAlnumSpace(toLowerCase(kw))))

\* mutant: the substring test asks whether the keyword contains compact
check_reversedIncludes(name, kw) ==
  LET kwNorm == StripNonAlnum(toLowerCase(kw))
  IN IF kwNorm = <<>> THEN FALSE
     ELSE IF Contains(name.tokens, trim(StripNonAlnumSpace(toLowerCase(kw))))
     THEN TRUE
     ELSE includes(kwNorm, name.compact)

\* the closure check(kw) over the tokens and compact of the normalized name
check(name, kw) ==
  LET kwNorm == StripNonAlnum(toLowerCase(kw))
  IN IF kwNorm = <<>> THEN FALSE
     ELSE IF Contains(name.tokens, trim(StripNonAlnumSpace(toLowerCase(kw))))
     THEN TRUE
     ELSE includes(name.compact, kwNorm)

\* mutant: every match adds STRONG_WEIGHT, whatever list it comes from
RECURSIVE MatchLoop_strongOnly(_, _, _, _)
MatchLoop_strongOnly(list, weight, name, acc) ==
  IF list = <<>> THEN acc
  ELSE MatchLoop_strongOnly(Tail(list), weight, name,
         IF check(name, Head(list))
         THEN [matches |-> Append(acc.matches, Head(list)),
               score |-> acc.score + STRONG_WEIGHT]
         ELSE acc)

\* for (const k of list) if (check(k)) { matches.push(k); score += weight; }
RECURSIVE MatchLoop(_, _, _, _)
MatchLoop(list, weight, name, acc) ==
  IF list = <<>> THEN acc
  ELSE MatchLoop(Tail(list), weight, name,
         IF check(name, Head(list))
         THEN [matches |-> Append(acc.matches, Head(list)),
               score |-> acc.score + weight]
         ELSE acc)

\* the body of the loop over this.diseaseClasses: the DebugMatch of a disease
MatchDisease(self, name, disease) ==
  LET kws == self.keywords[disease]
      strong == MatchLoop(kws.strong, STRONG_WEIGHT, name,
                          [matches |-> <<>>, score |-> 0])
      weak == MatchLoop(kws.weak, WEAK_WEIGHT, name,
                        [matches |-> <<>>, score |-> strong.score])
  IN [strongMatches |-> strong.matches,
      weakMatches |-> weak.matches,
      score |-> weak.score]

\* candidates, keyed by disease
Candidates(self, name) ==
  [d \in {self.diseaseClasses[i] : i \in 1..Len(self.diseaseClasses)} |->
     MatchDisease(self, name, d)]

\* Object.entries(candidates): the keys in insertion order
Entries(self) == self.diseaseClasses

\* mutant: any match, strong or weak, makes a disease category a candidate
RECURSIVE DiseaseCandidates_anyMatch(_, _)
DiseaseCandidates_anyMatch(entries, candidates) ==
  IF entries = <<>> THEN <<>>
  ELSE LET d == Head(entries)
           m == candidates[d]
       IN (IF d # "Healthy" /\ m.score > 0
           THEN <<[disease |-> d, score |-> m.score]>>
           ELSE <<>>)
          \o DiseaseCandidates_anyMatch(Tail(entries), candidates)

\* .filter(([d, m]) => d !== 'Healthy' && m.strongMatches.length > 0)
\* .map(([d, m]) => ({ disease: d, score: m.score }))
RECURSIVE DiseaseCandidates(_, _)
DiseaseCandidates(entries, candidates) ==
  IF entries = <<>> THEN <<>>
  ELSE LET d == Head(entries)
           m == candidates[d]
       IN (IF d # "Healthy" /\ Len(m.strongMatches) > 0
           THEN <<[disease |-> d, score |-> m.score]>>
           ELSE <<>>)
          \o DiseaseCandidates(Tail(entries), candidates)

\* Array.prototype.sort((a, b) => b.score - a.score): stable, descending
RECURSIVE InsertSorted(_, _)
InsertSorted(sorted, x) ==
  IF sorted = <<>> THEN <<x>>
  ELSE IF Head(sorted).score >= x.score
       THEN <<Head(sorted)>> \o InsertSorted(Tail(sorted), x)
       ELSE <<x>> \o sorted

RECURSIVE SortByScore(_)
SortByScore(list) ==
  IF list = <<>> THEN <<>>
  ELSE InsertSorted(SortByScore(SubSeq(list, 1, Len(list) - 1)), list[Len(list)])

\* .filter(d => d.score === topScore).map(d => d.disease)
RECURSIVE TopDiseases(_, _)
TopDiseases(list, topScore) ==
  IF list = <<>> THEN <<>>
  ELSE (IF Head(list).score = topScore THEN <<Head(list).disease>> ELSE <<>>)
       \o TopDiseases(Tail(list), topScore)

\* for (const p of this.priority) if (topDiseases.includes(p)) { chosen = p; break; }
RECURSIVE PriorityScan(_, _)
PriorityScan(prio, topDiseases) ==
  IF prio = <<>> THEN "undefined"
  ELSE IF Contains(topDiseases, Head(prio)) THEN Head(prio)
  ELSE PriorityScan(Tail(prio), topDiseases)

\* mutant: the sort is left out, so topScore is the first candidate's score
SelectChosen_unsorted(self, candidates) ==
  LET diseaseCandidates == DiseaseCandidates(Entries(self), candidates)
  IN IF Len(diseaseCandidates) = 0 THEN "Healthy"
     ELSE LET topScore == diseaseCandidates[1].score
              chosen == PriorityScan(self.priority,
                                     TopDiseases(diseaseCandidates, topScore))
          IN IF chosen = "undefined" THEN "Healthy" ELSE chosen

\* the selection of chosen, lines 129-150
SelectChosen(self, candidates) ==
  LET diseaseCandidates == DiseaseCandidates(Entries(self), candidates)
  IN IF Len(diseaseCandidates) = 0 THEN "Healthy"
     ELSE LET sorted == SortByScore(diseaseCandidates)
              topScore == sorted[1].score
              chosen == PriorityScan(self.priority, TopDiseases(sorted, topScore))
          IN IF chosen = "undefined" THEN "Healthy" ELSE chosen

\* mutant: topScore is the score of the best disease candidate, 0 without one
debugAnalyze_candidateTop(self, imageName) ==
  LET name == normalizeName(imageName)
      candidates == Candidates(self, name)
      chosen == SelectChosen(self, candidates)
      sorted == SortByScore(DiseaseCandidates(Entries(self), candidates))
  IN [filename |-> name.base,
      candidates |-> candidates,
      chosen |-> chosen,
      topScore |-> IF sorted = <<>> THEN 0 ELSE sorted[1].score]

\* the record returned at line 153

debugAnalyze(self, imageName) ==
  LET name == normalizeName(imageName)
      candidates == Candidates(self, name)
      chosen == SelectChosen(self, candidates)
  IN [filename |-> name.base,
      candidates |-> candidates,
      chosen |-> chosen,
      topScore |-> IF chosen \in DOMAIN candidates
                   THEN candidates[chosen].score ELSE 0]

----------------------------------------------------------------------------
(* ServerModelService.scoreToConfidence and predictFromImageName *)

\* mutant: the final Math.round(confidence * 100) / 100 is left out
scoreToConfidence_unrounded(score) ==
  LET normalized == FMin(FDiv(score, MAX), Fixed(1, 1))
  IN Fixed(55, 100) + FMul(normalized, Fixed(98, 100) - Fixed(55, 100))

scoreToConfidence(score) ==
  LET normalized == FMin(FDiv(score, MAX), Fixed(1, 1))
      confidence == Fixed(55, 100)
                    + FMul(normalized, Fixed(98, 100) - Fixed(55, 100))
  IN FDiv(MathRound(FMul(confidence, Fixed(100, 1))), Fixed(100, 1))

\* mutant: the confidence is taken from the highest score of any candidate
\* instead of the chosen category's own score
Prediction_topOfAll(self, dbg) ==
  LET chosen == dbg.chosen
      diseaseData == IF chosen \in DOMAIN self.diseaseInfo
                     THEN self.diseaseInfo[chosen]
                     ELSE self.diseaseInfo["Healthy"]
      top == CHOOSE d \in DOMAIN dbg.candidates :
               \A e \in DOMAIN dbg.candidates :
                  dbg.candidates[e].score <= dbg.candidates[d].score
  IN [diagnosis |-> chosen,
      confidence |-> scoreToConfidence(dbg.candidates[top].score),
      severity |-> diseaseData.severity,
      isHealthy |-> (chosen = "Healthy"),
      description |-> diseaseData.description,
      treatment |-> diseaseData.treatment]

\* mutant: the metadata is always Healthy's, as if the lookup never hit
Prediction_fallbackData(self, dbg) ==
  LET chosen == dbg.chosen
      diseaseData == self.diseaseInfo["Healthy"]
      chosenScore == IF chosen \in DOMAIN dbg.candidates
                     THEN dbg.candidates[chosen].score ELSE 0
  IN [diagnosis |-> chosen,
      confidence |-> scoreToConfidence(chosenScore),
      severity |-> diseaseData.severity,
      isHealthy |-> (chosen = "Healthy"),
      description |-> diseaseData.description,
      treatment |-> diseaseData.treatment]

\* the ModelPrediction assembled from the debug record
Prediction(self, dbg) ==
  LET chosen == dbg.chosen
      diseaseData == IF chosen \in DOMAIN self.diseaseInfo
                     THEN self.diseaseInfo[chosen]
                     ELSE self.diseaseInfo["Healthy"]
      chosenScore == IF chosen \in DOMAIN dbg.candidates
                     THEN dbg.candidates[chosen].score ELSE 0
  IN [diagnosis |-> chosen,
      confidence |-> scoreToConfidence(chosenScore),
      severity |-> diseaseData.severity,
      isHealthy |-> (chosen = "Healthy"),
      description |-> diseaseData.description,
      treatment |-> diseaseData.treatment]

----------------------------------------------------------------------------
(* The file names the callers pass. *)

\* the concatenation of a sequence of strings
RECURSIVE Concat(_)
Concat(parts) == IF parts = <<>> THEN <<>> ELSE Head(parts) \o Concat(Tail(parts))

\* every concatenation of at most n members of the sequence of strings pieces
NamesOver(pieces, n) ==
  UNION {{Concat([i \in 1..k |-> pieces[f[i]]]) : f \in [1..k -> 1..Len(pieces)]} :
           k \in 0..n}

NameLeafSpot01 == <<"l","e","a","f","_","s","p","o","t","_","0","1",".","p","n","g">>
NamePlantHealthyControl == <<"p","l","a","n","t","_","h","e","a","l","t","h","y","_","c","o","n","t","r","o","l",".","j","p","g">>
NamePathQuery == <<"a","/","b","/","l","e","a","f","_","s","p","o","t",".","p","n","g","?","x","=","1","#","y">>
NameHealthyNormalRust == <<"h","e","a","l","t","h","y","_","n","o","r","m","a","l","_","r","u","s","t",".","j","p","g">>
NameImgRust01 == <<"i","m","g","_","r","u","s","t","_","0","1",".","j","p","g">>
NameImgRust01Compact == <<"i","m","g","r","u","s","t","0","1",".","j","p","g">>
NameQueryInDir == <<"u","p","?","v","=","2","/","l","e","a","f","_","s","p","o","t",".","p","n","g">>

NameBlank == <<" ", "\t", " ">>

\* escapes: not hex, cut short, a byte that is not UTF-8, and well-formed ones
NameRustBadEscape == <<"r","u","s","t","%","Z","Z",".","j","p","g">>
NameSpotLoneByte == <<"s","p","o","t","%","E","9">>
NameLeafEscapedSpot == <<"l","e","a","f","%","2","0","s","p","o","t","%","C","3","%","A","9">>

\* the names of the scenarios of the specification
ScenarioNames ==
  {NameLeafSpot01, NamePlantHealthyControl, NamePathQuery, NameHealthyNormalRust,
   NameImgRust01, NameImgRust01Compact, NameQueryInDir, NameBlank, Empty, Absent,
   NameRustBadEscape, NameSpotLoneByte, NameLeafEscapedSpot}

\* words and separators of file names that exercise the keyword tables
Pieces ==
  << <<"r","u","s","t">>,
     <<"R","U","S","T">>,
     <<"o","r","a","n","g","e">>,
     <<"s","u","n","k","e","n">>,
     <<"l","e","s","i","o","n">>,
     <<"s","p","o","t">>,
     <<"s","c","o","r","c","h","e","d">>,
     <<"s","c","a","l","d">>,
     <<"h","e","a","l","t","h","y">>,
     <<"c","o","n","t","r","o","l">>,
     <<"g","r","e","e","n">>,
     <<"l","e","a","f">>,
     <<"_">>,
     <<" ">>,
     <<".">>,
     <<"0","1">>,
     <<"x">> >>

\* path, query, fragment and percent-escape material
PathPieces ==
  << <<"/">>,
     <<"?">>,
     <<"#">>,
     <<"%">>,
     <<"2","F">>,
     <<"4","1">>,
     <<"Z","Z">>,
     <<" ">>,
     <<"r","u","s","t">>,
     <<".">> >>

ClassifyNames == NamesOver(Pieces, MaxPieces) \cup ScenarioNames
PathNames == NamesOver(PathPieces, MaxPathPieces) \cup ScenarioNames

\* the names the concurrent callers draw from
SharedNames ==
  {Empty, NameLeafSpot01, NamePlantHealthyControl,
   <<"r","u","s","t","_","s","u","n","k","e","n">>,
   <<"o","r","a","n","g","e">>}

\* scores handed to scoreToConfidence, in tenths
Scores == {Fixed(k, 10) : k \in (0 - ScoreSpan)..ScoreSpan}

----------------------------------------------------------------------------
(* The state machine. *)

None == "none"

Init ==
  /\ diseaseClasses = InitDiseaseClasses
  /\ diseaseInfo = InitDiseaseInfo
  /\ keywords = InitKeywords
  /\ priority = InitPriority
  /\ pc = [c \in Callers |-> "idle"]
  /\ op = [c \in Callers |-> None]
  /\ arg = [c \in Callers |-> Absent]
  /\ norm = [c \in Callers |-> None]
  /\ debug = [c \in Callers |-> None]
  /\ ret = [c \in Callers |-> None]
  /\ mapperPc = "idle"
  /\ scoreArg = 0
  /\ confRet = 0
  /\ model = "null"
  /\ isLoaded = FALSE
  /\ isLoading = FALSE
  /\ clientPc = [c \in Callers |-> "idle"]
  /\ clientOp = [c \in Callers |-> None]
  /\ loadOutcome = [c \in Callers |-> None]

\* mutant: the priority scan reverses this.priority in place
predictFromImageName_reversing(c, imageName) ==
  /\ pc[c] = "idle"
  /\ pc' = [pc EXCEPT ![c] = "pending"]
  /\ op' = [op EXCEPT ![c] = "predictFromImageName"]
  /\ arg' = [arg EXCEPT ![c] = imageName]
  /\ norm' = [norm EXCEPT ![c] = normalizeName(imageName)]
  /\ debug' = [debug EXCEPT ![c] = debugAnalyze(this, imageName)]
  /\ ret' = [ret EXCEPT ![c] = Prediction(this, debug'[c])]
  /\ priority' = [i \in 1..Len(priority) |-> priority[Len(priority) + 1 - i]]
  /\ UNCHANGED <<diseaseClasses, diseaseInfo, keywords, mapper, loader>>

\* caller c invokes modelService.predictFromImageName(imageName): the body
\* has no await, so it runs to its return statement in one step and leaves
\* a promise that is settled later
predictFromImageName(c, imageName) ==
  /\ pc[c] = "idle"
  /\ pc' = [pc EXCEPT ![c] = "pending"]
  /\ op' = [op EXCEPT ![c] = "predictFromImageName"]
  /\ arg' = [arg EXCEPT ![c] = imageName]
  /\ norm' = [norm EXCEPT ![c] = normalizeName(imageName)]
  /\ debug' = [debug EXCEPT ![c] = debugAnalyze(this, imageName)]
  /\ ret' = [ret EXCEPT ![c] = Prediction(this, debug'[c])]
  /\ UNCHANGED <<tables, mapper, loader>>

\* the promise of caller c is fulfilled with the ModelPrediction
Settle(c) ==
  /\ pc[c] = "pending"
  /\ pc' = [pc EXCEPT ![c] = "done"]
  /\ UNCHANGED <<tables, op, arg, norm, debug, ret, mapper, loader>>

\* mutant: debugAnalyze sorts this.diseaseClasses in place before the loop
CallDebugAnalyze_sorting(c, imageName) ==
  /\ pc[c] = "idle"
  /\ pc' = [pc EXCEPT ![c] = "done"]
  /\ op' = [op EXCEPT ![c] = "debugAnalyze"]
  /\ arg' = [arg EXCEPT ![c] = imageName]
  /\ norm' = [norm EXCEPT ![c] = normalizeName(imageName)]
  /\ debug' = [debug EXCEPT ![c] = debugAnalyze(this, imageName)]
  /\ diseaseClasses' = <<"Aloe Rust", "Anthracnose", "Healthy", "Leaf Spot", "Sunburn">>
  /\ UNCHANGED <<diseaseInfo, keywords, priority, ret, mapper, loader>>

\* caller c invokes modelService.debugAnalyze(imageName), which is synchronous
CallDebugAnalyze(c, imageName) ==
  /\ pc[c] = "idle"
  /\ pc' = [pc EXCEPT ![c] = "done"]
  /\ op' = [op EXCEPT ![c] = "debugAnalyze"]
  /\ arg' = [arg EXCEPT ![c] = imageName]
  /\ norm' = [norm EXCEPT ![c] = normalizeName(imageName)]
  /\ debug' = [debug EXCEPT ![c] = debugAnalyze(this, imageName)]
  /\ UNCHANGED <<tables, ret, mapper, loader>>

\* caller c is finished with what it got and may call again
Release(c) ==
  /\ pc[c] = "done"
  /\ pc' = [pc EXCEPT ![c] = "idle"]
  /\ op' = [op EXCEPT ![c] = None]
  /\ arg' = [arg EXCEPT ![c] = Absent]
  /\ norm' = [norm EXCEPT ![c] = None]
  /\ debug' = [debug EXCEPT ![c] = None]
  /\ ret' = [ret EXCEPT ![c] = None]
  /\ UNCHANGED <<tables, mapper, loader>>

\* scoreToConfidence applied to a score on its own
CallScoreToConfidence(score) ==
  /\ mapperPc' = "returned"
  /\ scoreArg' = score
  /\ confRet' = scoreToConfidence(score)
  /\ UNCHANGED <<tables, frames, loader>>

\* concurrent callers of the shared instance
Next ==
  \E c \in Callers :
     \/ \E imageName \in SharedNames : predictFromImageName(c, imageName)
     \/ \E imageName \in SharedNames : CallDebugAnalyze(c, imageName)
     \/ Settle(c)
     \/ Release(c)

Spec == Init /\ [][Next]_vars

\* one caller, every classification name
NextClassify ==
  \/ \E imageName \in ClassifyNames : predictFromImageName(1, imageName)
  \/ \E imageName \in ClassifyNames : CallDebugAnalyze(1, imageName)
  \/ Settle(1)
  \/ Release(1)

SpecClassify == Init /\ [][NextClassify]_vars

\* one caller, every path name
NextPath ==
  \/ \E imageName \in PathNames : predictFromImageName(1, imageName)
  \/ \E imageName \in PathNames : CallDebugAnalyze(1, imageName)
  \/ Settle(1)
  \/ Release(1)

SpecPath == Init /\ [][NextPath]_vars

\* the confidence mapper over every score
NextConf == \E score \in Scores : CallScoreToConfidence(score)

SpecConf == Init /\ [][NextConf]_vars

----------------------------------------------------------------------------
(* AloeModelService, the model loader of the client.  Every caller runs on *)
(* the one JavaScript thread: the code between two awaits is one step.     *)

\* isModelLoaded() over given field values
isModelLoaded(loaded, m) == loaded /\ m # "null"

\* what isModelLoaded() answers at the moment loadModel returns
OutcomeOf(loaded, m) == IF isModelLoaded(loaded, m) THEN "loaded" ELSE "notLoaded"

\* where a caller stands once its loadModel call has ended: a direct call is
\* over, predict and warmUp resume after their await
Settled(method, outcome) ==
  IF method = "loadModel"
  THEN (IF outcome = "threw" THEN "threw" ELSE "returned")
  ELSE "loadSettled"

\* loadModel from its first line to its first await or its return
loadModelEntry(c, method) ==
  /\ clientOp' = [clientOp EXCEPT ![c] = method]
  /\ IF isLoaded /\ model # "null"
     THEN /\ loadOutcome' = [loadOutcome EXCEPT ![c] = OutcomeOf(isLoaded, model)]
          /\ clientPc' = [clientPc EXCEPT ![c] = Settled(method, "loaded")]
          /\ UNCHANGED service
     ELSE IF isLoading
     THEN /\ clientPc' = [clientPc EXCEPT ![c] = "polling"]
          /\ UNCHANGED <<service, loadOutcome>>
     ELSE /\ isLoading' = TRUE
          /\ clientPc' = [clientPc EXCEPT ![c] = "loading"]
          /\ UNCHANGED <<model, isLoaded, loadOutcome>>

\* caller c invokes modelService.loadModel()
loadModel(c) ==
  /\ clientPc[c] = "idle"
  /\ loadModelEntry(c, "loadModel")
  /\ UNCHANGED <<tables, frames, mapper>>

\* caller c invokes modelService.predict(imageFile): it loads first unless
\* the model is there; with the model it goes on to a result
predict(c) ==
  /\ clientPc[c] = "idle"
  /\ IF ~isLoaded \/ model = "null"
     THEN loadModelEntry(c, "predict")
     ELSE /\ clientOp' = [clientOp EXCEPT ![c] = "predict"]
          /\ clientPc' = [clientPc EXCEPT ![c] = "returned"]
          /\ UNCHANGED <<service, loadOutcome>>
  /\ UNCHANGED <<tables, frames, mapper>>

\* caller c invokes modelService.warmUp()
warmUp(c) ==
  /\ clientPc[c] = "idle"
  /\ IF ~isLoaded
     THEN loadModelEntry(c, "warmUp")
     ELSE /\ clientOp' = [clientOp EXCEPT ![c] = "warmUp"]
          /\ clientPc' = [clientPc EXCEPT ![c] =
                            IF model = "null" THEN "threw" ELSE "returned"]
          /\ UNCHANGED <<service, loadOutcome>>
  /\ UNCHANGED <<tables, frames, mapper>>

\* the 100 ms timer of a waiting caller fires: while (this.isLoading) either
\* waits again or falls through to the return
Poll(c) ==
  /\ clientPc[c] = "polling"
  /\ IF isLoading
     THEN UNCHANGED loader
     ELSE /\ loadOutcome' = [loadOutcome EXCEPT ![c] = OutcomeOf(isLoaded, model)]
          /\ clientPc' = [clientPc EXCEPT ![c] =
                            Settled(clientOp[c], loadOutcome'[c])]
          /\ UNCHANGED <<service, clientOp>>
  /\ UNCHANGED <<tables, frames, mapper>>

\* tf.loadLayersModel fulfils: model and isLoaded are set, finally resets
\* isLoading, loadModel returns
LoadLayersModelFulfils(c) ==
  /\ clientPc[c] = "loading"
  /\ model' = "layers"
  /\ isLoaded' = TRUE
  /\ isLoading' = FALSE
  /\ loadOutcome' = [loadOutcome EXCEPT ![c] = OutcomeOf(isLoaded', model')]
  /\ clientPc' = [clientPc EXCEPT ![c] = Settled(clientOp[c], loadOutcome'[c])]
  /\ UNCHANGED <<clientOp, tables, frames, mapper>>

\* tf.loadLayersModel rejects: the inner catch calls createMockModel, whose
\* body either builds the model or throws, and awaits its promise
LoadLayersModelRejects(c, mockThrows) ==
  /\ clientPc[c] = "loading"
  /\ clientPc' = [clientPc EXCEPT ![c] =
                    IF mockThrows THEN "mockRejected" ELSE "mockFulfilled"]
  /\ UNCHANGED <<service, clientOp, loadOutcome, tables, frames, mapper>>

\* the await of createMockModel resumes: with the mock model as after a
\* load, with its error in the outer catch, which throws; finally resets
\* isLoading either way
CreateMockModelSettles(c) ==
  /\ clientPc[c] \in {"mockFulfilled", "mockRejected"}
  /\ isLoading' = FALSE
  /\ IF clientPc[c] = "mockFulfilled"
     THEN /\ model' = "mock"
          /\ isLoaded' = TRUE
          /\ loadOutcome' = [loadOutcome EXCEPT ![c] = OutcomeOf(isLoaded', model')]
     ELSE /\ loadOutcome' = [loadOutcome EXCEPT ![c] = "threw"]
          /\ UNCHANGED <<model, isLoaded>>
  /\ clientPc' = [clientPc EXCEPT ![c] = Settled(clientOp[c], loadOutcome'[c])]
  /\ UNCHANGED <<clientOp, tables, frames, mapper>>

\* predict or warmUp resumes after await this.loadModel(): the error of
\* loadModel propagates, a missing model throws, else the call goes on
ResumeAfterLoad(c) ==
  /\ clientPc[c] = "loadSettled"
  /\ clientPc' = [clientPc EXCEPT ![c] =
                    IF loadOutcome[c] = "threw" \/ model = "null"
                    THEN "threw" ELSE "returned"]
  /\ UNCHANGED <<service, clientOp, loadOutcome, tables, frames, mapper>>

\* modelService.dispose(), synchronous, from any caller at any time
dispose ==
  /\ IF model # "null"
     THEN model' = "null" /\ isLoaded' = FALSE
     ELSE UNCHANGED <<model, isLoaded>>
  /\ UNCHANGED <<isLoading, clientPc, clientOp, loadOutcome, tables, frames, mapper>>

\* caller c has seen how its call ended and may call again
ClientRelease(c) ==
  /\ clientPc[c] \in {"returned", "threw"}
  /\ clientPc' = [clientPc EXCEPT ![c] = "idle"]
  /\ clientOp' = [clientOp EXCEPT ![c] = None]
  /\ loadOutcome' = [loadOutcome EXCEPT ![c] = None]
  /\ UNCHANGED <<service, tables, frames, mapper>>

\* concurrent callers of the shared AloeModelService
NextLoader ==
  \/ \E c \in Callers :
        \/ loadModel(c)
        \/ predict(c)
        \/ warmUp(c)
        \/ Poll(c)
        \/ LoadLayersModelFulfils(c)
        \/ \E mockThrows \in BOOLEAN : LoadLayersModelRejects(c, mockThrows)
        \/ CreateMockModelSettles(c)
        \/ ResumeAfterLoad(c)
        \/ ClientRelease(c)
  \/ dispose

SpecLoader == Init /\ [][NextLoader]_vars

----------------------------------------------------------------------------
(* Vocabulary of the properties. *)

\* caller c holds the ModelPrediction of predictFromImageName(arg[c])
Predicted(c) == pc[c] \in {"pending", "done"} /\ op[c] = "predictFromImageName"

\* caller c holds the debug record of debugAnalyze(arg[c]), either returned
\* to it or computed inside predictFromImageName
Analyzed(c) == pc[c] \in {"pending", "done"}

\* the non-Healthy categories of a debug record with a strong match
Eligible(dbg) ==
  {d \in DOMAIN dbg.candidates :
     d # "Healthy" /\ dbg.candidates[d].strongMatches # <<>>}

\* the place of x in a sequence without repetitions
RankIn(order, x) == CHOOSE i \in 1..Len(order) : order[i] = x

\* 0.55 + (clamp(score, 0, 3.0) / 3.0) * 0.43 to two decimals, a half rounded
\* up: with score = n / 3000 the value in hundredths is 55 + 43 * n / 9000
ClampedConfidence(score) ==
  LET clamped == IF score < 0 THEN 0 ELSE IF score > 9000 THEN 9000 ELSE score
      hundredths == (55 * 9000 + 43 * clamped + 4500) \div 9000
  IN hundredths * 30

----------------------------------------------------------------------------
(* C1: every confidence returned by predictFromImageName lies between 0.55 *)
(* and 0.98 and is a whole number of hundredths.                           *)

C1_ConfidenceRange ==
  \A c \in Callers :
     Predicted(c) =>
        /\ Fixed(55, 100) <= ret[c].confidence
        /\ ret[c].confidence <= Fixed(98, 100)
        /\ ret[c].confidence % Fixed(1, 100) = 0

\* a score of 1.4 was mapped: 0.55 + (1.4 / 3) * 0.43 = 0.75066... became 0.75
C1_Witness ==
  \E c \in Callers :
     /\ Predicted(c)
     /\ debug[c].topScore = Fixed(14, 10)
     /\ ret[c].confidence = Fixed(75, 100)

----------------------------------------------------------------------------
(* C2: Healthy fallback.  As claimed: when no non-Healthy category has a   *)
(* strong match, the diagnosis is Healthy and the confidence is 0.55       *)
(* whatever Healthy keywords the name contains.                            *)

C2_Original ==
  \A c \in Callers :
     (Predicted(c) /\ Eligible(debug[c]) = {}) =>
        /\ ret[c].diagnosis = "Healthy"
        /\ ret[c].confidence = Fixed(55, 100)

(* C2 as amended: when no non-Healthy category has a strong match, the     *)
(* diagnosis is Healthy and the confidence is 0.55 + (min(h, 3) / 3) * 0.43 *)
(* to two decimals, h being Healthy's own score (1.0 for each matched      *)
(* strong and 0.4 for each matched weak Healthy keyword); it is 0.55       *)
(* exactly when the name matches no Healthy keyword.                       *)

C2_HealthyFallback ==
  \A c \in Callers :
     (Predicted(c) /\ Eligible(debug[c]) = {}) =>
        LET healthy == debug[c].candidates["Healthy"]
            h == 3000 * Len(healthy.strongMatches) + 1200 * Len(healthy.weakMatches)
        IN /\ ret[c].diagnosis = "Healthy"
           /\ ret[c].confidence = ClampedConfidence(h)
           /\ (ret[c].confidence = Fixed(55, 100)) <=>
                (healthy.strongMatches = <<>> /\ healthy.weakMatches = <<>>)

\* the fallback was taken although a disease category scored on weak
\* keywords, and Healthy's own matches raised the confidence above 0.55
C2_Witness ==
  \E c \in Callers :
     /\ Predicted(c)
     /\ Eligible(debug[c]) = {}
     /\ \E d \in DOMAIN debug[c].candidates :
           d # "Healthy" /\ debug[c].candidates[d].score > 0
     /\ debug[c].candidates["Healthy"].strongMatches # <<>>
     /\ ret[c].diagnosis = "Healthy"
     /\ ret[c].confidence > Fixed(55, 100)

----------------------------------------------------------------------------
(* C3: debugAnalyze chooses Healthy exactly when no non-Healthy category   *)
(* has a strong match; a chosen disease category always has a strong       *)
(* match; "plant_healthy_control.jpg" yields Healthy.                      *)

C3_Eligibility ==
  \A c \in Callers :
     Analyzed(c) =>
        /\ (debug[c].chosen = "Healthy") <=> (Eligible(debug[c]) = {})
        /\ debug[c].chosen # "Healthy" => debug[c].chosen \in Eligible(debug[c])
        /\ arg[c] = NamePlantHealthyControl => debug[c].chosen = "Healthy"

\* a disease category with a strong match was chosen although Healthy's own
\* score is strictly higher
C3_Witness ==
  \E c \in Callers :
     /\ Analyzed(c)
     /\ debug[c].chosen # "Healthy"
     /\ debug[c].candidates["Healthy"].score > debug[c].candidates[debug[c].chosen].score

----------------------------------------------------------------------------
(* C4: when some disease category is eligible, the chosen category is      *)
(* eligible, has the greatest score among the eligible ones, is the        *)
(* earliest in Aloe Rust, Anthracnose, Leaf Spot, Sunburn, Healthy among   *)
(* those tied at that score, and is the same for every iteration order of  *)
(* diseaseClasses.                                                         *)

ClaimedPriority == <<"Aloe Rust", "Anthracnose", "Leaf Spot", "Sunburn", "Healthy">>

\* every order in which diseaseClasses could list the categories
IterationOrders ==
  {o \in [1..Len(InitDiseaseClasses) ->
            {InitDiseaseClasses[i] : i \in 1..Len(InitDiseaseClasses)}] :
     \A i, j \in 1..Len(InitDiseaseClasses) : i # j => o[i] # o[j]}

C4_Selection ==
  \A c \in Callers :
     (Analyzed(c) /\ Eligible(debug[c]) # {}) =>
        LET cand == debug[c].candidates
            chosen == debug[c].chosen
        IN /\ chosen \in Eligible(debug[c])
           /\ \A d \in Eligible(debug[c]) :
                 /\ cand[d].score <= cand[chosen].score
                 /\ cand[d].score = cand[chosen].score =>
                       RankIn(ClaimedPriority, chosen) <= RankIn(ClaimedPriority, d)
           /\ \A o \in IterationOrders :
                 SelectChosen([this EXCEPT !.diseaseClasses = o], cand) = chosen

\* Anthracnose was chosen while another eligible category has the same
\* score, so the priority order decided
C4_Witness ==
  \E c \in Callers :
     /\ Analyzed(c)
     /\ \E d \in Eligible(debug[c]) :
           /\ d # debug[c].chosen
           /\ debug[c].candidates[d].score = debug[c].candidates[debug[c].chosen].score
     /\ debug[c].chosen = "Anthracnose"

----------------------------------------------------------------------------
(* C5: path and query stripping.  As claimed: base is the final path       *)
(* segment of raw with a trailing query string and fragment removed, also  *)
(* when '?' or '#' occurs inside an earlier path component                 *)
(* (segment-then-strip).  Stated for that case, a '?' or '#' before a      *)
(* later '/', and for names without a percent sign, where decoding changes *)
(* nothing.                                                                *)

SegmentThenStrip(raw) == SplitFirst(SplitFirst(basename(raw), "?"), "#")

MarkInDirectory(raw) ==
  \E i, j \in 1..Len(raw) : i < j /\ raw[i] \in {"?", "#"} /\ raw[j] = "/"

C5_Original ==
  \A c \in Callers :
     (Analyzed(c) /\ arg[c] # Absent /\ ~Contains(arg[c], "%")
        /\ MarkInDirectory(arg[c])) =>
        debug[c].filename = SegmentThenStrip(arg[c])

(* C5 as amended: base is the final path segment of the text of raw that   *)
(* precedes its first '?' or '#' (strip-then-segment), percent-decoded     *)
(* when decoding succeeds; a '?' or '#' inside an earlier path component   *)
(* therefore ends the name there.  "a/b/leaf_spot.png?x=1#y" gives         *)
(* "leaf_spot.png".                                                        *)

\* raw[1..k] is the text before the first '?' or '#'
IsStripped(raw, k) ==
  /\ \A i \in 1..k : raw[i] \notin {"?", "#"}
  /\ k = Len(raw) \/ raw[k + 1] \in {"?", "#"}

\* raw[b..e] is the last path segment of raw[1..k]
IsFinalSegment(raw, b, e, k) ==
  /\ \A i \in (e + 1)..k : raw[i] = "/"
  /\ e = 0 \/ raw[e] # "/"
  /\ \A i \in b..e : raw[i] # "/"
  /\ b = 1 \/ raw[b - 1] = "/"

C5_StripThenSegment ==
  \A c \in Callers :
     (Analyzed(c) /\ arg[c] # Absent /\ arg[c] # Empty) =>
        LET raw == arg[c]
        IN /\ \E k \in 0..Len(raw) : \E e \in 0..k : \E b \in 1..(e + 1) :
                 /\ IsStripped(raw, k)
                 /\ IsFinalSegment(raw, b, e, k)
                 /\ LET segment == SubSeq(raw, b, e)
                        decoded == decodeURIComponent(segment)
                    IN debug[c].filename =
                         IF decoded.ok THEN decoded.value ELSE segment
           /\ raw = NamePathQuery =>
                 debug[c].filename =
                   <<"l","e","a","f","_","s","p","o","t",".","p","n","g">>

\* a '?' inside a directory name: "up?v=2/leaf_spot.png" has base "up"
C5_Witness ==
  \E c \in Callers :
     /\ Analyzed(c)
     /\ arg[c] = NameQueryInDir
     /\ debug[c].filename = <<"u","p">>

----------------------------------------------------------------------------
(* C6: scenario A.  As claimed: for "leaf_spot_01.png" the tokens include  *)
(* "leaf", "spot", "01", compact contains "leafspot", the diagnosis is     *)
(* Leaf Spot, its score is at least 1.0 and the confidence is about 0.70.  *)

ScenarioA(c) ==
  /\ Contains(norm[c].tokens, <<"l","e","a","f">>)
  /\ Contains(norm[c].tokens, <<"s","p","o","t">>)
  /\ Contains(norm[c].tokens, <<"0","1">>)
  /\ includes(norm[c].compact, <<"l","e","a","f","s","p","o","t">>)
  /\ ret[c].diagnosis = "Leaf Spot"
  /\ debug[c].candidates["Leaf Spot"].score >= Fixed(10, 10)

C6_Original ==
  \A c \in Callers :
     (Predicted(c) /\ arg[c] = NameLeafSpot01) =>
        /\ ScenarioA(c)
        /\ Fixed(69, 100) <= ret[c].confidence
        /\ ret[c].confidence <= Fixed(71, 100)

(* C6 as amended: for "leaf_spot_01.png" the tokens include "leaf",        *)
(* "spot", "01", compact contains "leafspot", the diagnosis is Leaf Spot,  *)
(* the Leaf Spot score is 5.0 (five of its strong keywords match) and the  *)
(* returned confidence is 0.98.                                            *)

C6_ScenarioA ==
  \A c \in Callers :
     (Predicted(c) /\ arg[c] = NameLeafSpot01) =>
        /\ ScenarioA(c)
        /\ Len(debug[c].candidates["Leaf Spot"].strongMatches) = 5
        /\ debug[c].candidates["Leaf Spot"].score = Fixed(50, 10)
        /\ ret[c].confidence = Fixed(98, 100)

\* the promise for "leaf_spot_01.png" was fulfilled
C6_Witness ==
  \E c \in Callers :
     /\ pc[c] = "done"
     /\ op[c] = "predictFromImageName"
     /\ arg[c] = NameLeafSpot01
     /\ ret[c].isHealthy = FALSE

----------------------------------------------------------------------------
(* C7: degraded input.  As claimed: for an empty, absent or whitespace-only *)
(* name normalizeName returns all-empty fields, every category has no      *)
(* match and score 0, and the prediction is Healthy, severity null,        *)
(* isHealthy true, confidence 0.55.                                        *)

Blank(raw) == raw = Absent \/ \A i \in 1..Len(raw) : raw[i] \in WhiteSpace

NoMatch == [strongMatches |-> <<>>, weakMatches |-> <<>>, score |-> 0]

\* everything the claim says except the value of base
DegradedRest(c) ==
  /\ norm[c].normalized = <<>>
  /\ norm[c].compact = <<>>
  /\ norm[c].tokens = <<>>
  /\ \A d \in DOMAIN debug[c].candidates : debug[c].candidates[d] = NoMatch
  /\ ret[c].diagnosis = "Healthy"
  /\ ret[c].severity = "null"
  /\ ret[c].isHealthy = TRUE
  /\ ret[c].confidence = Fixed(55, 100)

C7_Original ==
  \A c \in Callers :
     (Predicted(c) /\ Blank(arg[c])) =>
        /\ norm[c].base = <<>>
        /\ DegradedRest(c)

(* C7 as amended: for an empty or absent name base is empty, for a         *)
(* whitespace-only name base is the name itself, unchanged; in all three   *)
(* cases normalized, compact and tokens are empty, every category has no   *)
(* match and score 0, and the prediction is Healthy, severity null,        *)
(* isHealthy true, confidence 0.55.                                        *)

C7_Degraded ==
  \A c \in Callers :
     (Predicted(c) /\ Blank(arg[c])) =>
        /\ norm[c].base = IF arg[c] = Absent THEN <<>> ELSE arg[c]
        /\ debug[c].filename = norm[c].base
        /\ DegradedRest(c)

\* a name of spaces and a tab went through
C7_Witness ==
  \E c \in Callers :
     /\ pc[c] = "done"
     /\ op[c] = "predictFromImageName"
     /\ arg[c] = NameBlank
     /\ ret[c].diagnosis = "Healthy"

----------------------------------------------------------------------------
(* C8: for every score s, scoreToConfidence(s) is                          *)
(* 0.55 + (clamp(s, 0, 3.0) / 3.0) * 0.43 to two decimals, so it is 0.55   *)
(* for every s <= 0 and 0.98 for every s >= 3.0.                           *)

C8_ClampedMapper ==
  mapperPc = "returned" =>
     /\ confRet = ClampedConfidence(scoreArg)
     /\ scoreArg <= 0 => confRet = Fixed(55, 100)
     /\ scoreArg >= MAX => confRet = Fixed(98, 100)

\* what the code does keep: the claimed value for every score from 0 up
C8_FromZero ==
  (mapperPc = "returned" /\ scoreArg >= 0) =>
     confRet = ClampedConfidence(scoreArg)

----------------------------------------------------------------------------
(* C9: two calls of predictFromImageName with the same name return the     *)
(* same ModelPrediction, whatever calls were made before or between them.  *)

C9_Determinism ==
  \A c1, c2 \in Callers :
     (Predicted(c1) /\ Predicted(c2) /\ arg[c1] = arg[c2]) =>
        /\ ret[c1] = ret[c2]
        /\ debug[c1] = debug[c2]

\* two callers hold the result for the same name, a tie that the priority
\* order decided, one of them already delivered and the other still pending
C9_Witness ==
  \E c1, c2 \in Callers :
     /\ c1 # c2
     /\ pc[c1] = "done" /\ op[c1] = "predictFromImageName"
     /\ pc[c2] = "pending"
     /\ arg[c1] = arg[c2]
     /\ ret[c1].diagnosis = "Aloe Rust"
     /\ debug[c1].candidates["Anthracnose"].score = debug[c1].topScore

----------------------------------------------------------------------------
(* C10: under every interleaving of invocations on the shared instance,    *)
(* each invocation returns what it returns when run alone on the instance  *)
(* as constructed, and no invocation modifies diseaseClasses, diseaseInfo, *)
(* keywords or priority.                                                   *)

C10_ConcurrencySafe ==
  /\ this = Constructed
  /\ \A c \in Callers :
        /\ Analyzed(c) => debug[c] = debugAnalyze(Constructed, arg[c])
        /\ Predicted(c) =>
              ret[c] = Prediction(Constructed, debugAnalyze(Constructed, arg[c]))

\* two invocations overlap: one promise is still pending when another call
\* with a different name has run
C10_Witness ==
  \E c1, c2 \in Callers :
     /\ c1 # c2
     /\ pc[c1] = "pending"
     /\ pc[c2] = "pending"
     /\ arg[c1] # arg[c2]
     /\ ret[c1].diagnosis # ret[c2].diagnosis

----------------------------------------------------------------------------
(* C11: when percent-decoding of the base name fails ("rust%ZZ.jpg", a     *)
(* lone '%'), nothing is raised, the base name as it was before decoding   *)
(* is what is normalized, scored and selected on, and the prediction is    *)
(* well formed; when decoding succeeds the decoded text is used.           *)

\* a '%' that is not followed by two hex digits
BadEscape(s) ==
  \E i \in 1..Len(s) :
     s[i] = "%" /\ ~(i + 2 <= Len(s) /\ IsHex(s[i + 1]) /\ IsHex(s[i + 2]))

\* lower-cased, separators to spaces, other characters dropped, trimmed
Cleaned(text) ==
  trim(StripNonAlnumSpace(ReplaceSeparatorRuns(toLowerCase(text), FALSE)))

\* a ModelPrediction with every field of its declared type
WellFormedPrediction(p) ==
  /\ p.diagnosis \in {InitDiseaseClasses[i] : i \in 1..Len(InitDiseaseClasses)}
  /\ p.confidence >= Fixed(55, 100) /\ p.confidence <= Fixed(98, 100)
  /\ p.severity \in {"low", "moderate", "high", "null"}
  /\ p.isHealthy \in BOOLEAN
  /\ p.description = InitDiseaseInfo[p.diagnosis].description
  /\ p.treatment = InitDiseaseInfo[p.diagnosis].treatment

C11_DecodeFailureAbsorbed ==
  \A c \in Callers :
     (Predicted(c) /\ arg[c] # Absent /\ arg[c] # Empty) =>
        LET raw == arg[c]
        IN /\ \E k \in 0..Len(raw) : \E e \in 0..k : \E b \in 1..(e + 1) :
                 /\ IsStripped(raw, k)
                 /\ IsFinalSegment(raw, b, e, k)
                 /\ LET segment == SubSeq(raw, b, e)
                        decoded == decodeURIComponent(segment)
                    IN /\ BadEscape(segment) => ~decoded.ok
                       /\ ~decoded.ok =>
                             /\ norm[c].base = segment
                             /\ norm[c].normalized = Cleaned(segment)
                       /\ decoded.ok =>
                             /\ norm[c].base = decoded.value
                             /\ norm[c].normalized = Cleaned(decoded.value)
           /\ norm[c].compact = RemoveWhiteSpace(norm[c].normalized)
           /\ debug[c].filename = norm[c].base
           /\ debug[c].candidates = Candidates(Constructed, norm[c])
           /\ debug[c].chosen = SelectChosen(Constructed, debug[c].candidates)
           /\ WellFormedPrediction(ret[c])
           /\ raw = NameRustBadEscape =>
                 /\ norm[c].base = NameRustBadEscape
                 /\ norm[c].tokens = << <<"r","u","s","t","z","z">>, <<"j","p","g">> >>
                 /\ ret[c].diagnosis = "Aloe Rust"
           /\ raw = <<"%">> => norm[c].base = <<"%">> /\ ret[c].diagnosis = "Healthy"
           /\ raw = NameSpotLoneByte =>
                 norm[c].base = NameSpotLoneByte /\ ret[c].diagnosis = "Leaf Spot"
           /\ raw = NameLeafEscapedSpot =>
                 /\ norm[c].base = <<"l","e","a","f"," ","s","p","o","t","NONASCII">>
                 /\ norm[c].normalized = <<"l","e","a","f"," ","s","p","o","t">>

\* "rust%ZZ.jpg" was classified on its undecoded text and the promise fulfilled
C11_Witness ==
  \E c \in Callers :
     /\ pc[c] = "done"
     /\ op[c] = "predictFromImageName"
     /\ arg[c] = NameRustBadEscape
     /\ norm[c].base = NameRustBadEscape
     /\ ret[c].diagnosis = "Aloe Rust"

----------------------------------------------------------------------------
(* C12: a keyword k whose compact form is not empty is recorded as matched *)
(* exactly when the token list contains k cleaned by the rule of           *)
(* normalized, or compact contains the compact form of k; a keyword whose  *)
(* compact form is empty is not recorded.  "img_rust_01.jpg" and           *)
(* "imgrust01.jpg" both give Aloe Rust with a strong match recorded.       *)

\* k lower-cased with every character that is not a letter or digit removed
CompactOf(k) == StripNonAlnum(toLowerCase(k))

\* keywords made of punctuation only, as a keyword table could hold them
EmptyCompactKeywords == {<<>>, <<"-">>, <<" ">>, <<"_", "-">>, <<"!", ".">>}

\* the matching rule in the words of the claim
RuleMatches(name, k) ==
  /\ CompactOf(k) # <<>>
  /\ \/ Contains(name.tokens, Cleaned(k))
     \/ includes(name.compact, CompactOf(k))

C12_MatchingRule ==
  \A c \in Callers :
     Analyzed(c) =>
        /\ \A d \in DOMAIN debug[c].candidates :
              /\ \A i \in 1..Len(keywords[d].strong) :
                    Contains(debug[c].candidates[d].strongMatches, keywords[d].strong[i])
                      <=> RuleMatches(norm[c], keywords[d].strong[i])
              /\ \A i \in 1..Len(keywords[d].weak) :
                    Contains(debug[c].candidates[d].weakMatches, keywords[d].weak[i])
                      <=> RuleMatches(norm[c], keywords[d].weak[i])
        /\ \A k \in EmptyCompactKeywords : ~check(norm[c], k)
        /\ arg[c] \in {NameImgRust01, NameImgRust01Compact} =>
              /\ debug[c].chosen = "Aloe Rust"
              /\ Len(debug[c].candidates["Aloe Rust"].strongMatches) >= 1

\* "imgrust01.jpg": rust was matched inside a longer token, by the
\* substring rule alone
C12_Witness ==
  \E c \in Callers :
     /\ Analyzed(c)
     /\ arg[c] = NameImgRust01Compact
     /\ ~Contains(norm[c].tokens, <<"r","u","s","t">>)
     /\ Contains(debug[c].candidates["Aloe Rust"].strongMatches, <<"r","u","s","t">>)
     /\ debug[c].chosen = "Aloe Rust"

----------------------------------------------------------------------------
(* C13: for every name and category, score is 1.0 times the number of      *)
(* strongMatches plus 0.4 times the number of weakMatches, strongMatches   *)
(* holds only matched keywords of the category's strong list, weakMatches  *)
(* only matched keywords of its weak list, and no keyword occurs twice in  *)
(* either list.                                                            *)

NoRepeat(list) == \A i, j \in 1..Len(list) : i # j => list[i] # list[j]

----------------------------------------------------------------------------
(* C14: debugAnalyze returns one record for every configured category and  *)
(* no other, filename is the base name of the normalized input, chosen is  *)
(* the winner of the selection rule, and topScore is the score of the      *)
(* chosen category's own record; predictFromImageName returns that chosen  *)
(* category as diagnosis and the confidence mapped from that topScore.     *)

\* the winner of the selection rule over a set of records: Healthy without
\* an eligible category, else the eligible category of greatest score that
\* comes first in the priority order
Winner(dbg) ==
  IF Eligible(dbg) = {} THEN "Healthy"
  ELSE CHOOSE w \in Eligible(dbg) :
         \A d \in Eligible(dbg) :
            \/ dbg.candidates[d].score < dbg.candidates[w].score
            \/ /\ dbg.candidates[d].score = dbg.candidates[w].score
               /\ RankIn(InitPriority, w) <= RankIn(InitPriority, d)

C14_DebugRecord ==
  \A c \in Callers :
     /\ Analyzed(c) =>
          /\ DOMAIN debug[c].candidates =
                {InitDiseaseClasses[i] : i \in 1..Len(InitDiseaseClasses)}
          /\ debug[c].filename = normalizeName(arg[c]).base
          /\ debug[c].chosen = Winner(debug[c])
          /\ debug[c].topScore = debug[c].candidates[debug[c].chosen].score
     /\ Predicted(c) =>
          /\ ret[c].diagnosis = debug[c].chosen
          /\ ret[c].confidence = scoreToConfidence(debug[c].topScore)

\* a prediction of Healthy whose record has a score of its own, while a
\* disease category without a strong match scored as well
C14_Witness ==
  \E c \in Callers :
     /\ Predicted(c)
     /\ ret[c].diagnosis = "Healthy"
     /\ debug[c].topScore = Fixed(1, 1)
     /\ ret[c].confidence = Fixed(69, 100)
     /\ \E d \in DOMAIN debug[c].candidates :
           d # "Healthy" /\ debug[c].candidates[d].score > 0

----------------------------------------------------------------------------
(* C15: in every result of predictFromImageName, description, treatment    *)
(* and severity are the configured metadata of the returned diagnosis,     *)
(* isHealthy is true exactly when the diagnosis is Healthy, severity is    *)
(* null exactly when isHealthy is true and otherwise one of low, moderate, *)
(* high; a category missing from the table gets Healthy's metadata.        *)

Severities == {"low", "moderate", "high"}

\* a category name that diseaseInfo has no entry for
UnknownCategory == "Root Rot"

C15_Metadata ==
  \A c \in Callers :
     Predicted(c) =>
        LET p == ret[c]
            unknown == Prediction(this, [debug[c] EXCEPT !.chosen = UnknownCategory])
        IN /\ p.diagnosis \in DOMAIN InitDiseaseInfo
           /\ p.description = InitDiseaseInfo[p.diagnosis].description
           /\ p.treatment = InitDiseaseInfo[p.diagnosis].treatment
           /\ p.severity = InitDiseaseInfo[p.diagnosis].severity
           /\ p.isHealthy <=> (p.diagnosis = "Healthy")
           /\ (p.severity = "null") <=> p.isHealthy
           /\ ~p.isHealthy => p.severity \in Severities
           /\ unknown.description = InitDiseaseInfo["Healthy"].description
           /\ unknown.treatment = InitDiseaseInfo["Healthy"].treatment
           /\ unknown.severity = InitDiseaseInfo["Healthy"].severity

\* a Sunburn diagnosis carrying Sunburn's severity and treatment
C15_Witness ==
  \E c \in Callers :
     /\ Predicted(c)
     /\ ret[c].diagnosis = "Sunburn"
     /\ ~ret[c].isHealthy
     /\ ret[c].severity = "low"
     /\ ret[c].treatment = InitDiseaseInfo["Sunburn"].treatment

----------------------------------------------------------------------------
(* C16: whenever the cleaned keyword is one of the tokens of a normalized  *)
(* name, compact contains the keyword's compact form; so a keyword is      *)
(* matched exactly when compact contains its compact form, and a           *)
(* classifier that applies the substring rule alone gives the same         *)
(* candidates, the same chosen category and the same confidence.           *)

\* the keyword as line 118 cleans it for the token test
TokenForm(k) == trim(StripNonAlnumSpace(toLowerCase(k)))

\* the substring rule alone
SubstringRule(name, k) ==
  CompactOf(k) # <<>> /\ includes(name.compact, CompactOf(k))

\* the keywords of list that the substring rule matches, in list order
RECURSIVE SubstringMatches(_, _)
SubstringMatches(list, name) ==
  IF list = <<>> THEN <<>>
  ELSE (IF SubstringRule(name, Head(list)) THEN <<Head(list)>> ELSE <<>>)
       \o SubstringMatches(Tail(list), name)

\* the candidates of the classifier that uses the substring rule alone
SubstringCandidates(self, name) ==
  [d \in {self.diseaseClasses[i] : i \in 1..Len(self.diseaseClasses)} |->
     LET strong == SubstringMatches(self.keywords[d].strong, name)
         weak == SubstringMatches(self.keywords[d].weak, name)
     IN [strongMatches |-> strong,
         weakMatches |-> weak,
         score |-> Len(strong) * STRONG_WEIGHT + Len(weak) * WEAK_WEIGHT]]

\* every configured keyword, and keywords a table could hold as well
ProbeKeywords ==
  UNION {{InitKeywords[d].strong[i] : i \in 1..Len(InitKeywords[d].strong)}
         \cup {InitKeywords[d].weak[i] : i \in 1..Len(InitKeywords[d].weak)} :
         d \in DOMAIN InitKeywords}
  \cup EmptyCompactKeywords
  \cup {<<"R","u","s","t">>, <<" ","s","p","o","t"," ">>, <<"0","1">>,
        <<"l","e","a","f","-">>, <<"i","m","g">>}

C16_TokenRuleSubsumed ==
  \A c \in Callers :
     /\ Analyzed(c) =>
          LET sub == SubstringCandidates(this, norm[c])
          IN /\ \A k \in ProbeKeywords :
                   /\ (CompactOf(k) # <<>> /\ Contains(norm[c].tokens, TokenForm(k)))
                         => includes(norm[c].compact, CompactOf(k))
                   /\ check(norm[c], k) <=> SubstringRule(norm[c], k)
             /\ debug[c].candidates = sub
             /\ debug[c].chosen = SelectChosen(this, sub)
     /\ Predicted(c) =>
          LET sub == SubstringCandidates(this, norm[c])
          IN ret[c].confidence = scoreToConfidence(sub[SelectChosen(this, sub)].score)

\* "img_rust_01.jpg": rust is a token of its own, the token rule hits, and
\* compact "imgrust01jpg" contains it as well
C16_Witness ==
  \E c \in Callers :
     /\ Predicted(c)
     /\ arg[c] = NameImgRust01
     /\ Contains(norm[c].tokens, TokenForm(<<"r","u","s","t">>))
     /\ includes(norm[c].compact, <<"r","u","s","t">>)
     /\ ret[c].diagnosis = "Aloe Rust"

----------------------------------------------------------------------------
(* C17: under every interleaving of loadModel, predict, warmUp and dispose *)
(* calls on the shared AloeModelService, at most one model load is in      *)
(* flight, isLoading is false whenever no load is in flight, and every     *)
(* loadModel call that returns without throwing, a call that only waited   *)
(* on another caller's load included, returns with isModelLoaded() true.   *)

\* the callers whose loadModel call is performing the load
InFlight == {c \in Callers : clientPc[c] \in {"loading", "mockFulfilled", "mockRejected"}}

\* at most one load in flight, and isLoading says whether there is one
C17_SingleLoad ==
  /\ Cardinality(InFlight) <= 1
  /\ isLoading <=> InFlight # {}

C17_Original ==
  /\ C17_SingleLoad
  /\ \A c \in Callers : loadOutcome[c] # "notLoaded"

====
